---- MODULE Spec2Model ----
(***************************************************************************)
(* DeepLens content acquisition and orchestration.                         *)
(*                                                                         *)
(*   deeplens/scraper.py       _request_with_retry, fetch_paper and the    *)
(*                             source resolvers, fetch_google_scholar_-    *)
(*                             profile, is_url                             *)
(*   deeplens/orchestrator.py  understand_paper,                           *)
(*                             evaluate_researcher_from_url                *)
(*   deeplens/base_agent.py    BaseAgent.invoke_prompt, _handle_error      *)
(*   deeplens/llm_provider.py  LiteLLMClient.chat_completion               *)
(*   deeplens/agents/*.py      translate, analyze, evaluate_researcher     *)
(*                                                                         *)
(* A Python string is a sequence of tokens (each token a run of            *)
(* characters); None is the reserved value None below.  One request of     *)
(* the fetcher and one time.sleep are one step each; the code between two  *)
(* network calls runs in the step that ends at the later one.              *)
(***************************************************************************)
EXTENDS Integers, Sequences, FiniteSets, TLC

VARIABLES
    pc,       \* where the workflow call stands
    wf,       \* the locals of the running workflow call
    frame,    \* the locals of the running _request_with_retry call
    llm,      \* what the capabilities have been asked so far in this call
    outcome,  \* how the workflow call ended: a returned dict or an exception
    fetches,        \* the _request_with_retry calls of concurrent callers
    module_state,   \* the module-level names of scraper.py
    registry,       \* AgentRegistry._agents
    calls,          \* the register and unregister calls made so far
    environ,        \* os.environ
    orchestrators,  \* the DeepLensOrchestrator objects constructed so far
    completion      \* the latest chat_completion: whose it was, with which key

vars == <<pc, wf, frame, llm, outcome, fetches, module_state, registry, calls,
          environ, orchestrators, completion>>

\* what the two workflows never touch
lib == <<fetches, module_state, registry, calls, environ, orchestrators, completion>>

\* what the library-level operations never touch
workflow == <<pc, wf, frame, llm, outcome>>

-----------------------------------------------------------------------------
(* Bounds of the model *)

\* the largest Retry-After value a server sends
MaxRetryAfter == 100

\* the most publication rows a Scholar profile page carries
MaxPubs == 2

-----------------------------------------------------------------------------
(* Python values *)

None == <<"None">>

Truthy(s) == s # None /\ s # <<>>

\* Python's  a or b
Or(a, b) == IF Truthy(a) THEN a ELSE b

IsSpace(t) == t \in {" ", "\n"}

RECURSIVE LStrip(_)
LStrip(s) ==
    IF s # <<>> /\ IsSpace(Head(s)) THEN LStrip(Tail(s)) ELSE s

RECURSIVE RStrip(_)
RStrip(s) ==
    IF s # <<>> /\ IsSpace(s[Len(s)]) THEN RStrip(SubSeq(s, 1, Len(s) - 1)) ELSE s

\* str.strip()
Strip(s) == RStrip(LStrip(s))

\* str.startswith(t), t one token
StartsWith(s, t) == s # <<>> /\ Head(s) = t

\* t in s
Contains(s, t) == \E i \in 1..Len(s) : s[i] = t

\* an exception object: its class, its message, the HTTP status it carries
\* (0 when none) and the attempt of the fetcher that created it (-1 when
\* it was not created by an attempt)
Exc(type, msg, status, attempt) ==
    [type |-> type, msg |-> msg, status |-> status, attempt |-> attempt]

NoExc == Exc("None", <<>>, 0, -1)

-----------------------------------------------------------------------------
(* scraper.py: the resilient HTTP fetcher *)

_MAX_RETRIES == 5

_BASE_DELAY == 3

\* the Retry-After header of a response: absent, or a string that is all
\* ASCII digits (isdigit, val its value) or is not (an HTTP date, "")
NoHeader == [present |-> FALSE, isdigit |-> FALSE, val |-> 0]

RetryAfterHeaders ==
    {NoHeader, [present |-> TRUE, isdigit |-> FALSE, val |-> 0]}
    \cup {[present |-> TRUE, isdigit |-> TRUE, val |-> v] : v \in {5, MaxRetryAfter}}

Statuses == {200, 403, 404, 429, 500, 503}

\* what one requests.get can do: answer with a status, or raise a
\* requests.exceptions.RequestException (DNS, timeout, connection reset)
Response(status, h) == [kind |-> "response", status |-> status, retry_after |-> h]

TransportError == [kind |-> "transport", status |-> 0, retry_after |-> NoHeader]

NoOutcome == [kind |-> "none", status |-> 0, retry_after |-> NoHeader]

\* line 43
IsRetryStatus(status) == status = 429 \/ status >= 500

Outcomes ==
    {Response(s, NoHeader) : s \in Statuses}
    \cup {Response(s, h) : s \in {t \in Statuses : IsRetryStatus(t)}, h \in RetryAfterHeaders}
    \cup {TransportError}

Max(a, b) == IF a >= b THEN a ELSE b

\* line 42: requests.get on a URL without a scheme raises MissingSchema, a
\* RequestException, before anything is sent; any other URL can have every
\* outcome
OutcomesFor(url) ==
    IF url # <<>> /\ Head(url) \in {"http://", "https://"}
    THEN Outcomes
    ELSE {TransportError}

\* lines 44 and 61
Backoff(attempt) == _BASE_DELAY * (2 ^ attempt)

ResponseDelay_header(attempt, h) ==
    IF h.present /\ h.isdigit THEN h.val ELSE Backoff(attempt)

\* lines 44-47
ResponseDelay(attempt, h) ==
    IF h.present /\ h.isdigit THEN Max(Backoff(attempt), h.val) ELSE Backoff(attempt)

\* Response.raise_for_status(): an HTTPError for 4xx and 5xx
RaisesForStatus(status) == 400 <= status /\ status < 600

\* the frame of one call: the loop variable, last_exc, the delay last
\* computed, and what the call has done so far (requests issued, sleeps
\* performed, the outcome of the latest request, whether every outcome so
\* far was a 429)
NewFrame(url) ==
    [pc |-> "request", url |-> url, attempt |-> 0, last_exc |-> NoExc,
     delay |-> 0, requests |-> 0, sleeps |-> 0, last |-> NoOutcome,
     all429 |-> TRUE, exc |-> NoExc]

NoFrame == [NewFrame(<<>>) EXCEPT !.pc = "none"]

OnOutcome_retry4xx(f, o) ==
    LET g == [f EXCEPT !.requests = @ + 1, !.last = o,
                       !.all429 = @ /\ o.kind = "response" /\ o.status = 429]
    IN  IF o.kind = "transport"
        THEN [g EXCEPT !.pc = "sleep", !.delay = Backoff(f.attempt),
                       !.last_exc = Exc("RequestException", <<"transport">>, 0, f.attempt)]
        ELSE IF IsRetryStatus(o.status)
        THEN [g EXCEPT !.pc = "sleep",
                       !.delay = ResponseDelay(f.attempt, o.retry_after)]
        ELSE IF RaisesForStatus(o.status)
        THEN [g EXCEPT !.pc = "sleep", !.delay = Backoff(f.attempt),
                       !.last_exc = Exc("HTTPError", <<"status">>, o.status, f.attempt)]
        ELSE [g EXCEPT !.pc = "returned"]

\* lines 41-66: one pass of the loop body up to its sleep, return or raise
OnOutcome(f, o) ==
    LET g == [f EXCEPT !.requests = @ + 1, !.last = o,
                       !.all429 = @ /\ o.kind = "response" /\ o.status = 429]
    IN  IF o.kind = "transport"
        THEN [g EXCEPT !.pc = "sleep", !.delay = Backoff(f.attempt),
                       !.last_exc = Exc("RequestException", <<"transport">>, 0, f.attempt)]
        ELSE IF IsRetryStatus(o.status)
        THEN [g EXCEPT !.pc = "sleep",
                       !.delay = ResponseDelay(f.attempt, o.retry_after)]
        ELSE IF RaisesForStatus(o.status)
        THEN [g EXCEPT !.pc = "raised",
                       !.exc = Exc("HTTPError", <<"status">>, o.status, f.attempt)]
        ELSE [g EXCEPT !.pc = "returned"]

\* lines 53/66, 40 and 68: the sleep ends, the loop goes on or is exhausted
AfterSleep_one_more(f) ==
    LET g == [f EXCEPT !.sleeps = @ + 1, !.attempt = @ + 1]
    IN  IF f.attempt + 1 <= _MAX_RETRIES
        THEN [g EXCEPT !.pc = "request"]
        ELSE [g EXCEPT !.pc = "raised",
                       !.exc = IF f.last_exc # NoExc
                               THEN f.last_exc
                               ELSE Exc("RuntimeError", <<"Failed to fetch after retries">>, 0, -1)]

AfterSleep(f) ==
    LET g == [f EXCEPT !.sleeps = @ + 1, !.attempt = @ + 1]
    IN  IF f.attempt + 1 < _MAX_RETRIES
        THEN [g EXCEPT !.pc = "request"]
        ELSE [g EXCEPT !.pc = "raised",
                       !.exc = IF f.last_exc # NoExc
                               THEN f.last_exc
                               ELSE Exc("RuntimeError", <<"Failed to fetch after retries">>, 0, -1)]

FrameDone(f) == f.pc \in {"returned", "raised"}

-----------------------------------------------------------------------------
(* scraper.py: the acquisition router and the source resolvers *)

\* the tokens a URL is cut at: the host ends at the first of these
PathToks ==
    {"/", "?", "#", "/abs/", "/pdf/", "/html/", "/paper/", "/list", "/post",
     "/citations", "/scholar"}

SchemeToks == {"http://", "https://"}

is_url_no_strip(text) ==
    StartsWith(text, "http://") \/ StartsWith(text, "https://") \/ StartsWith(text, "www.")

\* line 410: is_url
is_url(text) ==
    LET t == Strip(text)
    IN  StartsWith(t, "http://") \/ StartsWith(t, "https://") \/ StartsWith(t, "www.")

RECURSIVE HostPrefix(_)
HostPrefix(s) ==
    IF s = <<>> \/ Head(s) \in PathToks \/ IsSpace(Head(s))
    THEN <<>>
    ELSE <<Head(s)>> \o HostPrefix(Tail(s))

\* line 96: urlparse(url).netloc, which is empty when the URL has no scheme
Netloc(url) ==
    IF url # <<>> /\ Head(url) \in SchemeToks THEN HostPrefix(Tail(url)) ELSE <<>>

\* lines 97-106: the resolver fetch_paper hands the stripped URL to
Dispatch(url) ==
    LET domain == Netloc(url)
    IN  IF Contains(domain, "arxiv.org") THEN "arxiv"
        ELSE IF Contains(domain, "semanticscholar.org") THEN "semantic_scholar"
        ELSE IF Contains(domain, "doi.org") \/ StartsWith(url, "10.") THEN "doi"
        ELSE "web"

\* the tokens that are arXiv identifiers
ArxivIds == {"2301.07041", "2301.07041v2"}

IsIdTok(t) == ~IsSpace(t) /\ t \notin {"?", "#"}

RECURSIVE IdRun(_)
IdRun(s) ==
    IF s = <<>> \/ ~IsIdTok(Head(s)) THEN <<>> ELSE <<Head(s)>> \o IdRun(Tail(s))

\* the tokens made only of the characters ".", "p", "d" and "f"
PdfChars == {".pdf", ".", "pdf", "p", "d", "f"}

\* str.rstrip(".pdf"): every trailing character that is one of ".", "p",
\* "d", "f" goes, so every trailing token made of them goes; the
\* identifier tokens end in a digit and stay
RECURSIVE RStripPdf(_)
RStripPdf(s) ==
    IF s # <<>> /\ s[Len(s)] \in PdfChars
    THEN RStripPdf(SubSeq(s, 1, Len(s) - 1))
    ELSE s

ExtractArxivId_keep_extension(url) ==
    LET hits == {i \in 1..(Len(url) - 2) :
                    /\ url[i] = "arxiv.org"
                    /\ url[i + 1] \in {"/abs/", "/pdf/", "/html/"}
                    /\ IsIdTok(url[i + 2])}
        Least(S) == CHOOSE i \in S : \A j \in S : i <= j
    IN  IF hits # {}
        THEN IdRun(SubSeq(url, Least(hits) + 2, Len(url)))
        ELSE None

\* lines 109-119: _extract_arxiv_id; None when it raises ValueError
ExtractArxivId(url) ==
    LET hits == {i \in 1..(Len(url) - 2) :
                    /\ url[i] = "arxiv.org"
                    /\ url[i + 1] \in {"/abs/", "/pdf/", "/html/"}
                    /\ IsIdTok(url[i + 2])}
        bare == {i \in 1..Len(url) : url[i] \in ArxivIds}
        Least(S) == CHOOSE i \in S : \A j \in S : i <= j
    IN  IF hits # {}
        THEN RStripPdf(IdRun(SubSeq(url, Least(hits) + 2, Len(url))))
        ELSE IF bare # {} THEN <<url[Least(bare)]>>
        ELSE None

DetectArxivFormat_always_html(url) == "html"

DetectArxivFormat_always_abs(url) == "abs"

\* lines 122-128: _detect_arxiv_format
DetectArxivFormat(url) ==
    IF Contains(url, "/html/") THEN "html"
    ELSE IF Contains(url, "/pdf/") THEN "pdf"
    ELSE "abs"

\* line 180: the metadata API's URL for an identifier
ApiUrl(arxiv_id) ==
    <<"http://", "export.arxiv.org", "/api/query?id_list=">> \o arxiv_id

\* line 137: the URL of the HTML rendering of an identifier
HtmlUrl(arxiv_id) == <<"https://", "arxiv.org", "/html/">> \o arxiv_id

HexIds == {"abc123"}

\* lines 226-230: the paper ID of a Semantic Scholar URL; None when neither
\* pattern matches
ExtractS2Id(url) ==
    LET slug == {i \in 1..(Len(url) - 4) :
                    /\ url[i] = "semanticscholar.org" /\ url[i + 1] = "/paper/"
                    /\ url[i + 2] \notin PathToks /\ url[i + 3] = "/"
                    /\ url[i + 4] \in HexIds}
        plain == {i \in 1..(Len(url) - 2) :
                    /\ url[i] = "semanticscholar.org" /\ url[i + 1] = "/paper/"
                    /\ url[i + 2] \in HexIds}
        Least(S) == CHOOSE i \in S : \A j \in S : i <= j
    IN  IF slug # {} THEN <<url[Least(slug) + 4]>>
        ELSE IF plain # {} THEN <<url[Least(plain) + 2]>>
        ELSE None

\* lines 250-252: the DOI of a URL
ExtractDoi(url) ==
    LET at == {i \in 1..(Len(url) - 1) : url[i] = "doi.org" /\ url[i + 1] = "/"}
        Least(S) == CHOOSE i \in S : \A j \in S : i <= j
    IN  IF at # {} THEN SubSeq(url, Least(at) + 2, Len(url)) ELSE url

\* the length in characters: the long tokens stand for that many
\* characters of text, every other token for one
TokLen(t) ==
    CASE t = "text499" -> 499
      [] t = "text500" -> 500
      [] t \in {"text15001[:15000]", "text30000[:15000]", "text30001[:15000]"} -> 15000
      [] t = "text15001" -> 15001
      [] t \in {"text30000", "text30001[:30000]"} -> 30000
      [] t = "text30001" -> 30001
      [] t = "\n\n[... content truncated ...]" -> 29
      [] OTHER -> 1

RECURSIVE StrLen(_)
StrLen(s) == IF s = <<>> THEN 0 ELSE TokLen(Head(s)) + StrLen(Tail(s))

\* s[:n] of a text of one long token
Slice(s, n) ==
    IF StrLen(s) <= n THEN s
    ELSE CASE s = <<"text15001">> /\ n = 15000 -> <<"text15001[:15000]">>
           [] s = <<"text30000">> /\ n = 15000 -> <<"text30000[:15000]">>
           [] s = <<"text30001">> /\ n = 15000 -> <<"text30001[:15000]">>
           [] s = <<"text30001">> /\ n = 30000 -> <<"text30001[:30000]">>

TruncationMarker == <<"\n\n[... content truncated ...]">>

\* what article.get_text(separator="\n", strip=True) can give: nothing, or
\* text that is not blank
PageTexts ==
    {<<>>, <<"page text">>, <<"text499">>, <<"text500">>, <<"text15001">>,
     <<"text30000">>, <<"text30001">>}

\* a fetched HTML page: whether a content container (article, main, body)
\* is found, and its text
HtmlPages ==
    {[container |-> FALSE, text |-> <<>>]}
    \cup {[container |-> TRUE, text |-> t] : t \in PageTexts}

ArxivHtmlContent_cut_from_30000(page) ==
    IF ~page.container THEN None
    ELSE IF StrLen(page.text) < 500 THEN None
    ELSE IF StrLen(page.text) >= 30000
    THEN Slice(page.text, 30000) \o TruncationMarker
    ELSE page.text

\* lines 140-162: the arXiv HTML rendering's text, None when unusable
ArxivHtmlContent(page) ==
    IF ~page.container THEN None
    ELSE IF StrLen(page.text) < 500 THEN None
    ELSE IF StrLen(page.text) > 30000
    THEN Slice(page.text, 30000) \o TruncationMarker
    ELSE page.text

\* lines 295-300: the text of a generic page
GenericContent(page) ==
    LET content == IF page.container THEN page.text ELSE <<>>
    IN  IF StrLen(content) > 15000
        THEN Slice(content, 15000) \o TruncationMarker
        ELSE content

\* an upstream abstract: the field missing from the answer, null, empty,
\* blank, or text
Missing == <<"<missing>">>

UpstreamAbstracts ==
    {Missing, None, <<>>, <<" ">>, <<"abstract text">>,
     <<"<jats:p>", "</jats:p>">>, <<"<jats:p>", "abstract text", "</jats:p>">>}

IsTag(t) == t \in {"<jats:p>", "</jats:p>"}

\* BeautifulSoup(s, "html.parser").get_text(): the markup goes, the text
\* stays as it is
GetText(s) == SelectSeq(s, LAMBDA t : ~IsTag(t))

\* dict.get(key, default)
Get(v, default) == IF v = Missing THEN default ELSE v

\* the arXiv Atom feed: whether it has an entry, and the entry's summary
\* after get_text(strip=True) (the element may be missing or empty)
ArxivFeeds ==
    {[entry |-> FALSE, summary |-> Missing]}
    \cup {[entry |-> TRUE, summary |-> a] : a \in {Missing, <<>>, <<"abstract text">>}}

\* a paper record as the resolvers build it
Paper(title, authors, abstract, content, source, url) ==
    [title |-> title, authors |-> authors, abstract |-> abstract,
     content |-> content, source |-> source, url |-> url]

NoPaper == Paper(<<>>, <<>>, <<>>, <<>>, "none", <<>>)

ArxivRecord_abstract_only(feed, arxiv_id, html_content) ==
    LET abstract == IF feed.summary = Missing THEN <<>> ELSE feed.summary
    IN  Paper(<<"arxiv title">>, <<"A. Author">>, abstract, abstract,
              "arxiv", <<"https://", "arxiv.org", "/abs/">> \o arxiv_id)

\* lines 188-220: the arXiv record from the entry and the HTML content
\* (None when not attempted or unusable)
ArxivRecord(feed, arxiv_id, html_content) ==
    LET abstract == IF feed.summary = Missing THEN <<>> ELSE feed.summary
    IN  Paper(<<"arxiv title">>, <<"A. Author">>, abstract,
              IF Truthy(html_content) THEN html_content ELSE abstract,
              "arxiv", <<"https://", "arxiv.org", "/abs/">> \o arxiv_id)

\* lines 238-245: the Semantic Scholar record
S2Record(abstract, url) ==
    Paper(<<"s2 title">>, <<"A. Author">>, Get(abstract, <<>>),
          Get(abstract, <<>>), "semantic_scholar", url)

\* lines 265-277: the Crossref record; a non-empty abstract has its tags
\* removed by get_text(), which does not strip
DoiRecord(abstract, doi) ==
    LET got == Get(abstract, <<>>)
        a == IF Truthy(got) THEN GetText(got) ELSE got
    IN  Paper(<<"doi title">>, <<"A. Author">>, a, a, "doi",
              <<"https://", "doi.org", "/">> \o doi)

\* lines 284-309: the generic page's record
WebRecord(page, url) ==
    Paper(IF page.container THEN <<"page title">> ELSE <<>>, <<>>, <<>>,
          GenericContent(page), "web", url)

\* lines 339, 346-348: the Scholar URL that is requested
CstartToks == {"cstart=0", "cstart=20"}

PagesizeToks == {"pagesize=100", "pagesize=20"}

HasParam(url, toks) == \E i \in 1..Len(url) : url[i] \in toks

NotScholar(url) == ~Contains(url, "scholar.google")

\* lines 416-418: is_google_scholar_url
is_google_scholar_url(text) ==
    Contains(text, "scholar.google") /\ Contains(text, "/citations")

Paginated(url) ==
    IF ~HasParam(url, CstartToks) /\ ~HasParam(url, PagesizeToks)
    THEN url \o <<IF Contains(url, "?") THEN "&" ELSE "?", "cstart=0", "&", "pagesize=100">>
    ELSE url

\* a fetched Scholar page: the challenge phrase, the CAPTCHA form, the name
\* container (its text, or Missing) and the publication rows
ScholarPages ==
    {[phrase |-> p, form |-> f, name |-> <<"Ada Lovelace">>, rows |-> 1] :
        p \in BOOLEAN, f \in BOOLEAN}
    \cup {[phrase |-> FALSE, form |-> FALSE, name |-> n, rows |-> k] :
            n \in {Missing, <<"Ada Lovelace">>}, k \in 0..MaxPubs}

\* line 355
IsCaptcha(page) == page.phrase \/ page.form

\* lines 370-393: one publication per row
Publications(page) ==
    [i \in 1..page.rows |->
        [title |-> <<"paper">>, year |-> 2020, cited_by |-> 0, abstract |-> <<>>]]

\* lines 362-403
Profile(page, url) ==
    [name |-> IF page.name = Missing THEN <<"Unknown">> ELSE page.name,
     affiliation |-> <<"Analytical Engine Lab">>,
     publications |-> Publications(page),
     url |-> url]

NoProfile ==
    [name |-> <<>>, affiliation |-> <<>>, publications |-> <<>>, url |-> <<>>]

-----------------------------------------------------------------------------
(* llm_provider.py, base_agent.py and the agents *)

\* the result of a call: a value, or an exception raised
Ok(v) == [raised |-> FALSE, value |-> v, exc |-> NoExc]

Raised(e) == [raised |-> TRUE, value |-> <<>>, exc |-> e]

\* what the provider does with one completion request
LLMOutcomes ==
    {[ok |-> TRUE, text |-> <<"llm text">>, error |-> <<>>],
     [ok |-> FALSE, text |-> <<>>, error |-> <<"provider error">>],
     [ok |-> FALSE, text |-> <<>>, error |-> <<"rate limit exceeded">>]}

\* llm_provider.py lines 136-175: LiteLLMClient.chat_completion
ChatCompletion(o) ==
    IF o.ok THEN Ok(o.text)
    ELSE Raised(Exc("Exception", <<"LLM API call failed: ">> \o o.error, 0, -1))

\* the attributes of the object the orchestrator builds its agents with
\* (orchestrator.py lines 80-94: a LiteLLMClient)
LiteLLMClientAttrs ==
    {"provider", "model", "api_key", "api_base", "api_version", "temperature",
     "max_tokens", "extra_params", "_setup_environment", "chat_completion",
     "_get_model_identifier"}

\* base_agent.py lines 76-90: _handle_error
HandleError(name, e, context) ==
    <<"Error in ", name>>
    \o (IF context # "" THEN <<" (", context, ")">> ELSE <<>>)
    \o <<": ">> \o e.msg

\* analysis_agent.py lines 28-42 and researcher_evaluation_agent.py lines
\* 28-47: _get_system_prompt, kept as self.system_prompt (base_agent.py line 26)
SystemPrompt(agent) ==
    IF agent = "AnalysisAgent"
    THEN <<"You are an expert research analyst">>
    ELSE <<"You are an expert at analyzing researcher career patterns and strategies.">>

Messages_user_only(system_prompt, prompt) ==
    <<[role |-> "user", content |-> prompt]>>

\* base_agent.py lines 56-59: the messages invoke_prompt sends
Messages(system_prompt, prompt) ==
    <<[role |-> "system", content |-> system_prompt],
      [role |-> "user", content |-> prompt]>>

\* analysis_agent.py lines 65-106: the prompt of analyze
AnalysisPrompt(content) ==
    <<"Analyze the following research content.", "CONTENT:">> \o content

\* researcher_evaluation_agent.py lines 71-75: pubs_text
RECURSIVE PubsText(_)
PubsText(publications) ==
    IF publications = <<>> THEN <<>>
    ELSE <<"Year ", "2020", ": ">> \o publications[1].title
         \o <<"\n", "Abstract: ">> \o publications[1].abstract \o <<"...">>
         \o (IF Len(publications) > 1 THEN <<"\n\n">> ELSE <<>>)
         \o PubsText(Tail(publications))

\* researcher_evaluation_agent.py lines 77-116: the prompt of
\* evaluate_researcher
ResearcherPrompt(publications, researcher_name) ==
    <<"Analyze the following publication history">>
    \o (IF Truthy(researcher_name) THEN <<" for researcher ">> \o researcher_name ELSE <<>>)
    \o <<".", "PUBLICATIONS:">> \o PubsText(publications)

InvokePrompt_reraise(name, r) == r

\* base_agent.py lines 39-74: invoke_prompt, r what chat_completion did
InvokePrompt(name, r) ==
    IF r.raised THEN Ok(HandleError(name, r.exc, "invoke_prompt")) ELSE Ok(r.value)

\* translation_agent.py lines 34-70: translate; the agent holds the client
\* as its kernel and calls kernel.invoke_prompt, r what that call does when
\* the kernel has such a method
Translate(kernelAttrs, r) ==
    IF "invoke_prompt" \notin kernelAttrs
    THEN Raised(Exc("AttributeError",
                    <<"'LiteLLMClient' object has no attribute 'invoke_prompt'">>, 0, -1))
    ELSE IF r.raised THEN r
    ELSE Ok([simplified |-> r.value, status |-> "success"])

\* analysis_agent.py lines 44-115: analyze
Analyze(r) ==
    LET result == InvokePrompt("AnalysisAgent", r)
    IN  IF result.raised THEN result
        ELSE Ok([analysis |-> result.value, status |-> "success"])

\* researcher_evaluation_agent.py lines 49-125: evaluate_researcher
EvaluateResearcher(r) ==
    LET result == InvokePrompt("ResearcherEvaluationAgent", r)
    IN  IF result.raised THEN result
        ELSE Ok([evaluation |-> result.value, status |-> "success"])

-----------------------------------------------------------------------------
(* scraper.py: the fetcher under concurrent callers *)

\* lines 20-27: the fixed identifying headers
_HEADERS ==
    [h \in {"User-Agent", "Accept-Language"} |->
        IF h = "User-Agent"
        THEN "Mozilla/5.0 (Windows NT 10.0; Win64; x64) Chrome/125.0.0.0 Safari/537.36"
        ELSE "en-US,en;q=0.9"]

NoHeaders == [h \in {} |-> ""]

\* the keyword arguments a caller passes: no headers (every call in
\* scraper.py), or a headers dict of its own
CallerKwargs ==
    {[has_headers |-> FALSE, headers |-> NoHeaders],
     [has_headers |-> TRUE, headers |-> [h \in {"Accept"} |-> "text/html"]],
     [has_headers |-> TRUE, headers |-> [h \in {"User-Agent"} |-> "my-agent/1.0"]]}

\* line 36: kwargs.setdefault("headers", _HEADERS), the headers requests.get
\* is called with
SetDefaultHeaders(kwargs, default) ==
    IF kwargs.has_headers THEN kwargs.headers ELSE default

\* the callers that run a fetch at the same time
Procs == {1, 2}

\* what each concurrent caller fetches: the arXiv API, a Scholar profile
FetchUrl(p) ==
    IF p = 1
    THEN <<"https://", "export.arxiv.org", "/api/query?id_list=", "2301.07041">>
    ELSE <<"https://", "scholar.google", ".com", "/citations", "?", "user=X">>

\* what the server of each caller answers
FetchOutcomes(p) ==
    {TransportError, Response(200, NoHeader), Response(429, NoHeader),
     Response(IF p = 1 THEN 404 ELSE 403, NoHeader)}

\* one caller: the frame of its _request_with_retry call, the keyword
\* arguments it passed, the headers of its latest request, the requests
\* it has issued and the statuses they met (0: no response)
NoFetch ==
    [frame |-> NoFrame, kwargs |-> [has_headers |-> FALSE, headers |-> NoHeaders],
     sent |-> NoHeaders, issued |-> 0, seen |-> {}]

LocalsOf_shared(fs, p) == fs[1].frame

\* lines 34-40: url, kwargs, last_exc and attempt are locals of the call
LocalsOf(fs, p) == fs[p].frame

-----------------------------------------------------------------------------
(* registry.py: AgentRegistry *)

\* base_agent.py line 10 and the class statements of the agents: the classes
\* that inherit from BaseAgent (TestAgent is the class of test_register_agent)
BaseAgentSubclasses ==
    {<<"AnalysisAgent">>, <<"ResearcherEvaluationAgent">>, <<"TestAgent">>}

\* translation_agent.py line 11: class TranslationAgent, without a base class
TranslationAgent == <<"TranslationAgent">>

NoAgents == [n \in {} |-> None]

AgentRegistry_register_unchecked(agents, name, agent_class) ==
    [raised |-> "none",
     agents |-> [n \in DOMAIN agents \cup {name} |->
                    IF n = name THEN agent_class ELSE agents[n]]]

\* registry.py lines 25-35: register
AgentRegistry_register(agents, name, agent_class) ==
    IF agent_class \notin BaseAgentSubclasses
    THEN [raised |-> "TypeError", agents |-> agents]
    ELSE [raised |-> "none",
          agents |-> [n \in DOMAIN agents \cup {name} |->
                         IF n = name THEN agent_class ELSE agents[n]]]

\* registry.py lines 38-46: unregister
AgentRegistry_unregister(agents, name) ==
    IF name \in DOMAIN agents
    THEN [n \in DOMAIN agents \ {name} |-> agents[n]]
    ELSE agents

\* registry.py lines 49-59: get
AgentRegistry_get(agents, name) ==
    IF name \in DOMAIN agents THEN agents[name] ELSE None

\* registry.py lines 62-69: list_agents
AgentRegistry_list_agents(agents) == DOMAIN agents

\* the @register_agent class statements run by "import deeplens", in the
\* order orchestrator.py imports the agent modules (translation_agent.py and
\* trend_assessment_agent.py have no decorator)
Imported ==
    AgentRegistry_register(
        AgentRegistry_register(NoAgents, "analysis", <<"AnalysisAgent">>).agents,
        "researcher", <<"ResearcherEvaluationAgent">>).agents

\* the names and classes later callers register and unregister
AgentNames == {"test_agent", "analysis", "translation"}

AgentClasses == {<<"TestAgent">>, <<"AnalysisAgent">>, TranslationAgent}

-----------------------------------------------------------------------------
(* llm_provider.py and orchestrator.py: credentials *)

Providers == {"openai", "anthropic"}

\* orchestrator.py lines 64-71 and llm_provider.py lines 112-119
EnvVar(provider) ==
    IF provider = "openai" THEN "OPENAI_API_KEY" ELSE "ANTHROPIC_API_KEY"

ApiKeys == {<<"sk-A">>, <<"sk-B">>}

NoEnviron == [v \in {EnvVar(p) : p \in Providers} |-> None]

\* llm_provider.py lines 103-119: _setup_environment
SetupEnvironment(env, provider, api_key) ==
    IF Truthy(api_key) THEN [env EXCEPT ![EnvVar(provider)] = api_key] ELSE env

\* orchestrator.py lines 58-76: the key the constructor settles on
ConstructorKey(env, provider, api_key) ==
    IF api_key = None THEN env[EnvVar(provider)] ELSE api_key

\* llm_provider.py lines 136-172: chat_completion hands litellm the model,
\* the messages, temperature, max_tokens and extra parameters, never
\* self.api_key; the key of the request is the one the provider's
\* environment variable holds when the call is made
CompletionKey(env, client) == env[EnvVar(client.provider)]

NoCompletion == [orchestrator |-> 0, key |-> None]

-----------------------------------------------------------------------------
(* orchestrator.py: the two workflows *)

\* what the callers hand to understand_paper
PaperInputs ==
    {<<>>, <<" ">>, <<"Attention is all you need">>, <<"10.", "1000/xyz">>,
     <<"https://", "arxiv.org", "/abs/", "2301.07041">>,
     <<"https://", "arxiv.org", "/html/", "2301.07041v2">>,
     <<"https://", "arxiv.org", "/pdf/", "2301.07041", ".pdf">>,
     <<"https://", "arxiv.org", "/list">>,
     <<"https://", "www.", "semanticscholar.org", "/paper/", "Attention", "/", "abc123">>,
     <<"https://", "www.", "semanticscholar.org", "/paper/">>,
     <<" ", "https://", "doi.org", "/", "10.", "1000/xyz">>,
     <<"www.", "example.com", "/post">>,
     <<"www.", "arxiv.org", "/abs/", "2301.07041">>,
     <<"https://", "arxiv.org", "/abs/", "2301.07041", "?", "ref=", "/pdf/">>,
     <<"see", " ", "https://", "arxiv.org", "/abs/", "2301.07041">>,
     <<" ", "Attention is all you need", "\n">>}

\* what the callers hand to evaluate_researcher_from_url
ScholarInputs ==
    {<<"https://", "scholar.google", ".com", "/citations", "?", "user=X">>,
     <<"https://", "scholar.google", ".com", "/citations", "?", "user=X", "&",
       "cstart=20">>,
     <<"https://", "example.com", "/citations", "?", "user=X">>,
     <<"https://", "scholar.google", ".com", "/scholar", "?", "q=X">>,
     <<"https://", "scholar.google", ".com", "/citations">>,
     <<"https://", "scholar.google", ".com", "/citations", "?", "user=X", "&",
       "cstart=0", "&", "pagesize=20">>}

NoBody == [none |-> TRUE]

NoFeed == [entry |-> FALSE, summary |-> Missing]

JsonBodies ==
    {[json |-> FALSE, abstract |-> Missing]}
    \cup {[json |-> TRUE, abstract |-> a] : a \in UpstreamAbstracts}

NoCall ==
    [name |-> "none", input |-> <<>>, url |-> <<>>, stage |-> "none",
     arxiv_id |-> None, url_format |-> "none", feed |-> NoFeed,
     body |-> NoBody, html_tried |-> FALSE, html_content |-> None,
     paper |-> NoPaper, fetched |-> FALSE, content |-> <<>>,
     agent |-> "translate", translation |-> <<>>, acq_exc |-> NoExc,
     profile |-> NoProfile, calls |-> <<>>]

NoLLM ==
    [translate_calls |-> 0, analyze_calls |-> 0, classify_calls |-> 0,
     chat_calls |-> 0, chat_failed |-> FALSE, translate_done |-> FALSE,
     translate_arg |-> None, analyze_arg |-> None, classify_pubs |-> -1,
     last_text |-> <<>>, error |-> <<>>, agent |-> "none", prompt |-> <<>>,
     messages |-> <<>>, invoked |-> Ok(<<>>)]

NoResult == [status |-> "none", exc |-> NoExc, ret |-> <<>>]

\* wf.calls is the URLs _request_with_retry was called with, in order

StepRaise_runtime_error(e) ==
    [kind |-> "raise", exc |-> [e EXCEPT !.type = "RuntimeError"], url |-> <<>>,
     paper |-> NoPaper]

\* the step a resolver or the scraper makes between two network calls
StepRaise(e) == [kind |-> "raise", exc |-> e, url |-> <<>>, paper |-> NoPaper]

StepFetch(url) == [kind |-> "fetch", exc |-> NoExc, url |-> url, paper |-> NoPaper]

StepPaper(p) == [kind |-> "paper", exc |-> NoExc, url |-> <<>>, paper |-> p]

Prelude_generic_fallback(url) ==
    LET resolver == Dispatch(url)
    IN  CASE resolver = "arxiv" ->
                IF ExtractArxivId(url) = None
                THEN StepFetch(url)
                ELSE StepFetch(ApiUrl(ExtractArxivId(url)))
          [] resolver = "semantic_scholar" ->
                IF ExtractS2Id(url) = None
                THEN StepFetch(url)
                ELSE StepFetch(<<"https://", "api.semanticscholar.org", "/graph/v1/paper/">>
                               \o ExtractS2Id(url) \o <<"?fields=title,abstract,authors">>)
          [] resolver = "doi" ->
                StepFetch(<<"https://", "api.crossref.org", "/works/">> \o ExtractDoi(url))
          [] OTHER -> StepFetch(url)

\* scraper.py lines 95-106 with lines 176-181, 226-235, 250-255 and 282:
\* fetch_paper up to the resolver's first request
Prelude(url) ==
    LET resolver == Dispatch(url)
    IN  CASE resolver = "arxiv" ->
                IF ExtractArxivId(url) = None
                THEN StepRaise(Exc("ValueError", <<"Cannot extract arXiv ID from: ">> \o url, 0, -1))
                ELSE StepFetch(ApiUrl(ExtractArxivId(url)))
          [] resolver = "semantic_scholar" ->
                IF ExtractS2Id(url) = None
                THEN StepRaise(Exc("ValueError",
                        <<"Cannot extract Semantic Scholar paper ID from: ">> \o url, 0, -1))
                ELSE StepFetch(<<"https://", "api.semanticscholar.org", "/graph/v1/paper/">>
                               \o ExtractS2Id(url) \o <<"?fields=title,abstract,authors">>)
          [] resolver = "doi" ->
                StepFetch(<<"https://", "api.crossref.org", "/works/">> \o ExtractDoi(url))
          [] OTHER -> StepFetch(url)

\* what the answer to a request can hold, by the request; the page an
\* answer of Scholar carries comes with any status, the fetcher's raise
\* leaves it unread
Bodies(stage, f) ==
    IF f.pc = "raised"
    THEN IF stage = "profile" /\ f.last.kind = "response" THEN ScholarPages ELSE {NoBody}
    ELSE CASE stage = "arxiv" -> ArxivFeeds
           [] stage \in {"arxiv_html", "web"} -> HtmlPages
           [] stage = "profile" -> ScholarPages
           [] OTHER -> JsonBodies

HtmlContent_any_text(f, body) ==
    IF f.pc = "raised" \/ ~body.container THEN None ELSE body.text

\* scraper.py lines 138-165: _fetch_arxiv_html_content after its request; any
\* exception inside it gives None
HtmlContent(f, body) ==
    IF f.pc = "raised" THEN None ELSE ArxivHtmlContent(body)

\* scraper.py lines 181-220, 235-245, 255-277, 282-309: a resolver from the
\* end of its request (frame f, answer body) to its next request, its
\* record or its exception
Resume(w, f, body) ==
    IF w.stage = "arxiv_html"
    THEN StepPaper(ArxivRecord(w.feed, w.arxiv_id, HtmlContent(f, body)))
    ELSE IF f.pc = "raised" THEN StepRaise(f.exc)
    ELSE CASE w.stage = "arxiv" ->
                IF ~body.entry
                THEN StepRaise(Exc("ValueError", <<"No arXiv entry found for ID ">> \o w.arxiv_id, 0, -1))
                ELSE IF w.url_format \in {"html", "pdf"}
                THEN StepFetch(HtmlUrl(w.arxiv_id))
                ELSE StepPaper(ArxivRecord(body, w.arxiv_id, None))
           [] w.stage \in {"semantic_scholar", "doi"} ->
                IF ~body.json
                THEN StepRaise(Exc("JSONDecodeError", <<"Expecting value">>, 0, -1))
                ELSE IF w.stage = "doi"
                THEN StepPaper(DoiRecord(body.abstract, ExtractDoi(w.url)))
                ELSE StepPaper(S2Record(body.abstract, w.url))
           [] OTHER -> StepPaper(WebRecord(body, w.url))

\* orchestrator.py line 122
ContentOf(paper) == Or(paper.content, Or(paper.abstract, <<>>))

ContentMissing_nostrip(content) == content = <<>>

\* orchestrator.py line 134
ContentMissing(content) == Strip(content) = <<>>

NoPublications_never(publications) == FALSE

\* orchestrator.py line 177
NoPublications(publications) == publications = <<>>

Propagates_swallow(r) == FALSE

\* orchestrator.py lines 138-139 and 183: an awaited call that raises ends
\* the workflow, there is no handler around it
Propagates(r) == r.raised

ContentError ==
    Exc("ValueError", <<"Could not extract content from the provided input.">>, 0, -1)

NoPublicationsError(name) ==
    Exc("ValueError",
        <<"No publications found for ">> \o name
        \o <<". The profile may be private or empty.">>, 0, -1)

CaptchaError ==
    Exc("RuntimeError",
        <<"Google Scholar returned a CAPTCHA. Please try again later or provide publications manually.">>,
        0, -1)

RaiseOut(e) ==
    /\ pc' = "done"
    /\ outcome' = [status |-> "raised", exc |-> e, ret |-> <<>>]

ReturnOut(v) ==
    /\ pc' = "done"
    /\ outcome' = [status |-> "returned", exc |-> NoExc, ret |-> v]

\* orchestrator.py lines 134-135, once the content is known
CheckContent(content) ==
    IF ContentMissing(content)
    THEN RaiseOut(ContentError)
    ELSE pc' = "agents" /\ UNCHANGED outcome

Init ==
    /\ pc = "idle"
    /\ wf = NoCall
    /\ frame = NoFrame
    /\ llm = NoLLM
    /\ outcome = NoResult
    /\ fetches = [p \in Procs |-> NoFetch]
    /\ module_state = [headers |-> _HEADERS]
    /\ registry = Imported
    /\ calls = <<>>
    /\ environ = NoEnviron
    /\ orchestrators = <<>>
    /\ completion = NoCompletion

\* orchestrator.py lines 119-135: understand_paper up to its first network
\* call, or past the content check when the input is raw text
UnderstandCall ==
    /\ pc = "idle"
    /\ \E input \in PaperInputs :
        LET w == [NoCall EXCEPT !.name = "understand", !.input = input]
        IN  IF is_url(input)
            THEN LET url == Strip(input)
                     step == Prelude(url)
                     v == [w EXCEPT !.url = url, !.stage = Dispatch(url),
                                    !.arxiv_id = IF Dispatch(url) = "arxiv"
                                                 THEN ExtractArxivId(url) ELSE None,
                                    !.url_format = IF Dispatch(url) = "arxiv"
                                                   THEN DetectArxivFormat(url) ELSE "none"]
                 IN  IF step.kind = "raise"
                     THEN /\ wf' = [v EXCEPT !.acq_exc = step.exc]
                          /\ RaiseOut(step.exc)
                          /\ UNCHANGED frame
                     ELSE /\ wf' = [v EXCEPT !.calls = <<step.url>>]
                          /\ frame' = NewFrame(step.url)
                          /\ pc' = "acquire"
                          /\ UNCHANGED outcome
            ELSE /\ wf' = [w EXCEPT !.stage = "text", !.content = input,
                                    !.paper = Paper(<<>>, <<>>, <<>>, input, "text", None)]
                 /\ CheckContent(input)
                 /\ UNCHANGED frame
    /\ UNCHANGED llm
    /\ UNCHANGED lib

\* scraper.py line 42: one GET of the running fetcher call and what the
\* loop body does with its outcome
FetcherRequest ==
    /\ pc = "acquire"
    /\ frame.pc = "request"
    /\ \E o \in OutcomesFor(frame.url) : frame' = OnOutcome(frame, o)
    /\ UNCHANGED <<pc, wf, llm, outcome>>
    /\ UNCHANGED lib

\* scraper.py lines 53 and 66: the backoff sleep ends
FetcherSleep ==
    /\ pc = "acquire"
    /\ frame.pc = "sleep"
    /\ frame' = AfterSleep(frame)
    /\ UNCHANGED <<pc, wf, llm, outcome>>
    /\ UNCHANGED lib

\* fetch_paper from the end of a resolver's request, then orchestrator.py
\* lines 122-135
PaperFetched ==
    /\ pc = "acquire"
    /\ wf.name = "understand"
    /\ FrameDone(frame)
    /\ \E body \in Bodies(wf.stage, frame) :
        LET step == Resume(wf, frame, body)
            tried == wf.stage = "arxiv_html"
        IN  IF step.kind = "raise"
            THEN /\ wf' = [wf EXCEPT !.acq_exc = step.exc, !.body = body]
                 /\ RaiseOut(step.exc)
                 /\ UNCHANGED frame
            ELSE IF step.kind = "fetch"
            THEN /\ wf' = [wf EXCEPT !.stage = "arxiv_html", !.feed = body,
                                     !.calls = Append(@, step.url)]
                 /\ frame' = NewFrame(step.url)
                 /\ UNCHANGED <<pc, outcome>>
            ELSE /\ wf' = [wf EXCEPT !.paper = step.paper, !.fetched = TRUE,
                                     !.body = body,
                                     !.feed = IF wf.stage = "arxiv" THEN body ELSE @,
                                     !.html_tried = tried,
                                     !.html_content = IF tried THEN HtmlContent(frame, body)
                                                      ELSE None,
                                     !.content = ContentOf(step.paper)]
                 /\ CheckContent(ContentOf(step.paper))
                 /\ UNCHANGED frame
    /\ UNCHANGED llm
    /\ UNCHANGED lib

\* orchestrator.py lines 138-148: the translation call, then the analysis
\* call and the assembled result
UnderstandAgents ==
    /\ pc = "agents"
    /\ \E o \in LLMOutcomes :
        IF wf.agent = "translate"
        THEN LET r == Translate(LiteLLMClientAttrs, ChatCompletion(o))
             IN  /\ llm' = [llm EXCEPT !.translate_calls = @ + 1,
                                       !.translate_arg = wf.content,
                                       !.translate_done = ~r.raised]
                 /\ IF Propagates(r)
                    THEN /\ RaiseOut(r.exc)
                         /\ UNCHANGED wf
                    ELSE /\ wf' = [wf EXCEPT !.agent = "analyze",
                                             !.translation = r.value]
                         /\ UNCHANGED <<pc, outcome>>
        ELSE LET c == ChatCompletion(o)
                 r == Analyze(c)
             IN  /\ llm' = [llm EXCEPT !.analyze_calls = @ + 1,
                                       !.analyze_arg = wf.content,
                                       !.chat_calls = @ + 1,
                                       !.chat_failed = @ \/ c.raised,
                                       !.last_text = o.text,
                                       !.error = o.error,
                                       !.agent = "AnalysisAgent",
                                       !.prompt = AnalysisPrompt(wf.content),
                                       !.messages = Messages(SystemPrompt("AnalysisAgent"),
                                                             AnalysisPrompt(wf.content)),
                                       !.invoked = InvokePrompt("AnalysisAgent", c)]
                 /\ IF Propagates(r)
                    THEN RaiseOut(r.exc)
                    ELSE ReturnOut([title |-> wf.paper.title,
                                    authors |-> wf.paper.authors,
                                    source |-> wf.paper.source,
                                    url |-> wf.paper.url,
                                    translation |-> wf.translation,
                                    analysis |-> r.value])
                 /\ UNCHANGED wf
    /\ UNCHANGED frame
    /\ UNCHANGED lib

\* scraper.py lines 338-350: fetch_google_scholar_profile up to its request
EvaluateCall ==
    /\ pc = "idle"
    /\ \E input \in ScholarInputs :
        LET url == Strip(input)
            w == [NoCall EXCEPT !.name = "evaluate", !.input = input, !.stage = "profile"]
        IN  IF NotScholar(url)
            THEN LET e == Exc("ValueError", <<"Not a Google Scholar URL: ">> \o url, 0, -1)
                 IN  /\ wf' = [w EXCEPT !.url = url, !.acq_exc = e]
                     /\ RaiseOut(e)
                     /\ UNCHANGED frame
            ELSE /\ wf' = [w EXCEPT !.url = Paginated(url),
                                    !.calls = <<Paginated(url)>>]
                 /\ frame' = NewFrame(Paginated(url))
                 /\ pc' = "acquire"
                 /\ UNCHANGED outcome
    /\ UNCHANGED llm
    /\ UNCHANGED lib

\* scraper.py lines 352-403, then orchestrator.py lines 174-181
ProfileFetched ==
    /\ pc = "acquire"
    /\ wf.name = "evaluate"
    /\ FrameDone(frame)
    /\ \E page \in Bodies(wf.stage, frame) :
        IF frame.pc = "raised"
        THEN /\ wf' = [wf EXCEPT !.acq_exc = frame.exc, !.body = page]
             /\ RaiseOut(frame.exc)
        ELSE IF IsCaptcha(page)
        THEN /\ wf' = [wf EXCEPT !.acq_exc = CaptchaError, !.body = page]
             /\ RaiseOut(CaptchaError)
        ELSE LET profile == Profile(page, wf.url)
             IN  /\ wf' = [wf EXCEPT !.profile = profile, !.fetched = TRUE,
                                     !.body = page]
                 /\ IF NoPublications(profile.publications)
                    THEN RaiseOut(NoPublicationsError(profile.name))
                    ELSE pc' = "classify" /\ UNCHANGED outcome
    /\ UNCHANGED <<frame, llm>>
    /\ UNCHANGED lib

\* ui.py line 440: the text the generator yields for a caught exception
StreamError(e) == [progress |-> <<>>, info |-> <<>>, eval |-> <<"Error: ">> \o e.msg]

\* orchestrator.py lines 183-193, orchestrator.py lines 214-217 and ui.py
\* lines 427-440: the classification call (researcher_agent.evaluate_researcher)
\* and what its caller makes of the result
Classify ==
    /\ pc = "classify"
    /\ \E o \in LLMOutcomes :
        LET c == ChatCompletion(o)
            r == EvaluateResearcher(c)
            prompt == ResearcherPrompt(wf.profile.publications, wf.profile.name)
        IN  /\ llm' = [llm EXCEPT !.classify_calls = @ + 1,
                                  !.classify_pubs = Len(wf.profile.publications),
                                  !.chat_calls = @ + 1,
                                  !.chat_failed = @ \/ c.raised,
                                  !.last_text = o.text,
                                  !.error = o.error,
                                  !.agent = "ResearcherEvaluationAgent",
                                  !.prompt = prompt,
                                  !.messages = Messages(SystemPrompt("ResearcherEvaluationAgent"),
                                                        prompt),
                                  !.invoked = InvokePrompt("ResearcherEvaluationAgent", c)]
            /\ CASE wf.name = "evaluate" ->
                      IF Propagates(r)
                      THEN RaiseOut(r.exc)
                      ELSE ReturnOut([name |-> wf.profile.name,
                                      affiliation |-> wf.profile.affiliation,
                                      pub_count |-> Len(wf.profile.publications),
                                      url |-> wf.profile.url,
                                      evaluation |-> r.value])
                 [] wf.name = "evaluate_stream" ->
                      IF r.raised
                      THEN ReturnOut(StreamError(r.exc))
                      ELSE ReturnOut([progress |-> <<"done">>,
                                      info |-> wf.profile.name,
                                      eval |-> r.value.evaluation])
                 [] OTHER ->
                      IF Propagates(r) THEN RaiseOut(r.exc) ELSE ReturnOut(r.value)
    /\ UNCHANGED <<wf, frame>>
    /\ UNCHANGED lib

\* what the callers hand to the orchestrator's evaluate_researcher helper
PublicationLists ==
    {[i \in 1..k |-> [title |-> <<"paper">>, year |-> 2020, cited_by |-> 0,
                      abstract |-> <<>>]] : k \in 0..MaxPubs}

ResearcherNames == {None, <<"Ada Lovelace">>}

\* orchestrator.py lines 199-217: the evaluate_researcher helper up to its
\* await of the agent
HelperCall ==
    /\ pc = "idle"
    /\ \E publications \in PublicationLists, researcher_name \in ResearcherNames :
        wf' = [NoCall EXCEPT !.name = "helper", !.stage = "helper",
                             !.profile = [NoProfile EXCEPT !.publications = publications,
                                                           !.name = researcher_name]]
    /\ pc' = "classify"
    /\ UNCHANGED <<frame, llm, outcome>>
    /\ UNCHANGED lib

\* what the user pastes into the UI's Scholar URL box
StreamInputs == ScholarInputs \cup {<<>>, <<" ">>}

\* ui.py lines 395-414 and scraper.py lines 338-350: evaluate_researcher_stream
\* up to the request of fetch_google_scholar_profile (the orchestrator is
\* configured)
StreamCall ==
    /\ pc = "idle"
    /\ \E input \in StreamInputs :
        LET url == Strip(input)
            w == [NoCall EXCEPT !.name = "evaluate_stream", !.input = input,
                                !.stage = "profile"]
        IN  IF url = <<>>
            THEN /\ wf' = w
                 /\ ReturnOut([progress |-> <<>>, info |-> <<>>,
                                eval |-> <<"Please paste a Google Scholar profile URL.">>])
                 /\ UNCHANGED frame
            ELSE IF NotScholar(url)
            THEN LET e == Exc("ValueError", <<"Not a Google Scholar URL: ">> \o url, 0, -1)
                 IN  /\ wf' = [w EXCEPT !.url = url, !.acq_exc = e]
                     /\ ReturnOut(StreamError(e))
                     /\ UNCHANGED frame
            ELSE /\ wf' = [w EXCEPT !.url = Paginated(url),
                                    !.calls = <<Paginated(url)>>]
                 /\ frame' = NewFrame(Paginated(url))
                 /\ pc' = "acquire"
                 /\ UNCHANGED outcome
    /\ UNCHANGED llm
    /\ UNCHANGED lib

\* scraper.py lines 352-403, then ui.py lines 414-426 and 439-440
StreamProfileFetched ==
    /\ pc = "acquire"
    /\ wf.name = "evaluate_stream"
    /\ FrameDone(frame)
    /\ \E page \in Bodies(wf.stage, frame) :
        IF frame.pc = "raised"
        THEN /\ wf' = [wf EXCEPT !.acq_exc = frame.exc, !.body = page]
             /\ ReturnOut(StreamError(frame.exc))
        ELSE IF IsCaptcha(page)
        THEN /\ wf' = [wf EXCEPT !.acq_exc = CaptchaError, !.body = page]
             /\ ReturnOut(StreamError(CaptchaError))
        ELSE /\ wf' = [wf EXCEPT !.profile = Profile(page, wf.url), !.fetched = TRUE,
                                 !.body = page]
             /\ pc' = "classify"
             /\ UNCHANGED outcome
    /\ UNCHANGED <<frame, llm>>
    /\ UNCHANGED lib

\* the caller has the result or the exception; the next call starts afresh
Reset ==
    /\ pc = "done"
    /\ pc' = "idle"
    /\ wf' = NoCall
    /\ frame' = NoFrame
    /\ llm' = NoLLM
    /\ outcome' = NoResult
    /\ UNCHANGED lib

Next ==
    \/ UnderstandCall
    \/ FetcherRequest
    \/ FetcherSleep
    \/ PaperFetched
    \/ UnderstandAgents
    \/ EvaluateCall
    \/ ProfileFetched
    \/ Classify
    \/ Reset

\* the two workflows, the orchestrator's helper and the UI's researcher tab
EntryNext ==
    \/ UnderstandCall
    \/ FetcherRequest
    \/ FetcherSleep
    \/ PaperFetched
    \/ UnderstandAgents
    \/ EvaluateCall
    \/ ProfileFetched
    \/ Classify
    \/ Reset
    \/ HelperCall
    \/ StreamCall
    \/ StreamProfileFetched

Spec == Init /\ [][Next]_vars

\* a request ends within its timeout and a sleep ends: the fetcher goes on
FairSpec == Spec /\ WF_vars(FetcherRequest) /\ WF_vars(FetcherSleep)

EntrySpec == Init /\ [][EntryNext]_vars

-----------------------------------------------------------------------------
(* Concurrent fetches *)

\* scraper.py lines 34-40: a caller enters _request_with_retry
FetchCall(p) ==
    /\ fetches[p].frame.pc = "none"
    /\ \E kwargs \in CallerKwargs :
        fetches' = [fetches EXCEPT ![p] = [NoFetch EXCEPT !.frame = NewFrame(FetchUrl(p)),
                                                         !.kwargs = kwargs]]
    /\ UNCHANGED <<module_state, registry, calls, environ, orchestrators, completion>>
    /\ UNCHANGED workflow

\* scraper.py line 42: one GET of caller p and what its loop body does
\* with the outcome
FetchRequest(p) ==
    /\ LocalsOf(fetches, p).pc = "request"
    /\ \E o \in FetchOutcomes(p) :
        fetches' = [fetches EXCEPT
                       ![p].frame = OnOutcome(LocalsOf(fetches, p), o),
                       ![p].sent = SetDefaultHeaders(fetches[p].kwargs, module_state.headers),
                       ![p].issued = @ + 1,
                       ![p].seen = @ \cup {o.status}]
    /\ UNCHANGED <<module_state, registry, calls, environ, orchestrators, completion>>
    /\ UNCHANGED workflow

\* scraper.py lines 53 and 66: the backoff sleep of caller p ends
FetchSleep(p) ==
    /\ LocalsOf(fetches, p).pc = "sleep"
    /\ fetches' = [fetches EXCEPT ![p].frame = AfterSleep(LocalsOf(fetches, p))]
    /\ UNCHANGED <<module_state, registry, calls, environ, orchestrators, completion>>
    /\ UNCHANGED workflow

\* the call of caller p has returned or raised; p may call again
FetchOver(p) ==
    /\ FrameDone(fetches[p].frame)
    /\ fetches' = [fetches EXCEPT ![p] = NoFetch]
    /\ UNCHANGED <<module_state, registry, calls, environ, orchestrators, completion>>
    /\ UNCHANGED workflow

ConcNext ==
    \/ \E p \in Procs : FetchCall(p)
    \/ \E p \in Procs : FetchRequest(p)
    \/ \E p \in Procs : FetchSleep(p)
    \/ \E p \in Procs : FetchOver(p)

ConcSpec == Init /\ [][ConcNext]_vars

-----------------------------------------------------------------------------
(* The registry after import *)

MaxCalls == 3

\* registry.py lines 25-35 and 87-102: AgentRegistry.register(name, cls), or
\* @register_agent(name) on a class statement
RegisterCall ==
    /\ Len(calls) < MaxCalls
    /\ \E name \in AgentNames, agent_class \in AgentClasses :
        LET r == AgentRegistry_register(registry, name, agent_class)
        IN  /\ registry' = r.agents
            /\ calls' = Append(calls, [op |-> "register", name |-> name,
                                       agent_class |-> agent_class, raised |-> r.raised,
                                       before |-> registry, after |-> r.agents])
    /\ UNCHANGED <<fetches, module_state, environ, orchestrators, completion>>
    /\ UNCHANGED workflow

\* registry.py lines 38-46: AgentRegistry.unregister(name)
UnregisterCall ==
    /\ Len(calls) < MaxCalls
    /\ \E name \in AgentNames :
        LET after == AgentRegistry_unregister(registry, name)
        IN  /\ registry' = after
            /\ calls' = Append(calls, [op |-> "unregister", name |-> name,
                                       agent_class |-> None, raised |-> "none",
                                       before |-> registry, after |-> after])
    /\ UNCHANGED <<fetches, module_state, environ, orchestrators, completion>>
    /\ UNCHANGED workflow

RegistryNext ==
    \/ RegisterCall
    \/ UnregisterCall

RegistrySpec == Init /\ [][RegistryNext]_vars

-----------------------------------------------------------------------------
(* Orchestrators and the process environment *)

MaxOrchestrators == 2

\* orchestrator.py lines 54-94 and llm_provider.py lines 67-119: an
\* orchestrator is constructed; without a key it raises ValueError
Construct ==
    /\ Len(orchestrators) < MaxOrchestrators
    /\ \E provider \in Providers, api_key \in ApiKeys \cup {None} :
        LET key == ConstructorKey(environ, provider, api_key)
        IN  IF ~Truthy(key)
            THEN UNCHANGED <<environ, orchestrators>>
            ELSE /\ orchestrators' = Append(orchestrators,
                                            [provider |-> provider, api_key |-> key])
                 /\ environ' = SetupEnvironment(environ, provider, key)
    /\ UNCHANGED <<fetches, module_state, registry, calls, completion>>
    /\ UNCHANGED workflow

\* the process environment changes (os.environ is assigned, a .env file is
\* loaded by another component)
SetEnv ==
    /\ \E provider \in Providers, key \in ApiKeys :
        environ' = [environ EXCEPT ![EnvVar(provider)] = key]
    /\ UNCHANGED <<fetches, module_state, registry, calls, orchestrators, completion>>
    /\ UNCHANGED workflow

\* llm_provider.py lines 136-172: an agent of orchestrator i calls
\* chat_completion
Completion ==
    /\ \E i \in 1..Len(orchestrators) :
        completion' = [orchestrator |-> i,
                       key |-> CompletionKey(environ, orchestrators[i])]
    /\ UNCHANGED <<fetches, module_state, registry, calls, environ, orchestrators>>
    /\ UNCHANGED workflow

CredentialNext ==
    \/ Construct
    \/ SetEnv
    \/ Completion

CredentialSpec == Init /\ [][CredentialNext]_vars

-----------------------------------------------------------------------------
(* The fetcher's retry bound and backoff *)

\* the outcome of the latest request is one the fetcher retries
LastRetryable ==
    \/ frame.last.kind = "transport"
    \/ frame.last.kind = "response"
       /\ (frame.last.status = 429 \/ frame.last.status >= 500)

C1_Requests ==
    /\ frame.requests <= 5
    /\ (FrameDone(frame) /\ frame.all429) => (frame.requests = 5 /\ frame.pc = "raised")
    /\ (frame.last.kind = "response" /\ ~LastRetryable)
          => (FrameDone(frame) /\ frame.requests = frame.attempt + 1)
    /\ (FrameDone(frame) /\ LastRetryable) => (frame.requests = 5 /\ frame.pc = "raised")

\* C1: one call of _request_with_retry always terminates and issues at most
\* 5 GET requests whatever the 429, 5xx and transport outcomes are: exactly
\* 5 and then a failure when every answer is 429, and exactly n when the
\* first outcome that is not retried arrives on request n.
C1_FetcherTerminates ==
    /\ []C1_Requests
    /\ (frame.pc \in {"request", "sleep"}) ~> FrameDone(frame)

C1_Witness ==
    /\ frame.pc = "raised"
    /\ frame.all429
    /\ frame.requests = 5

\* C2: a 4xx answer other than 429 makes the fetcher fail at once with that
\* HTTP error, on whichever attempt it arrives: no further request, no
\* backoff sleep after it.
C2_NoRetryOn4xx ==
    (/\ frame.last.kind = "response"
     /\ frame.last.status \in 400..499
     /\ frame.last.status # 429)
        => /\ frame.pc = "raised"
           /\ frame.exc.type = "HTTPError"
           /\ frame.exc.status = frame.last.status
           /\ frame.requests = frame.attempt + 1
           /\ frame.sleeps = frame.attempt

C2_Witness ==
    /\ frame.last.kind = "response"
    /\ frame.last.status = 404
    /\ frame.attempt = 2
    /\ frame.pc = "raised"

ExpectedBackoff(a) ==
    CASE a = 0 -> 3 [] a = 1 -> 6 [] a = 2 -> 12 [] a = 3 -> 24 [] a = 4 -> 48

LastHeaderIsInteger ==
    frame.last.retry_after.present /\ frame.last.retry_after.isdigit

\* C3 as stated: the delay after failed attempt a is 3 * 2^a, except that a
\* 429 answer with an integer Retry-After r makes it max(3 * 2^a, r).
C3_AsStated ==
    frame.pc = "sleep" =>
        frame.delay =
            IF frame.last.status = 429 /\ LastHeaderIsInteger
            THEN Max(ExpectedBackoff(frame.attempt), frame.last.retry_after.val)
            ELSE ExpectedBackoff(frame.attempt)

\* C3: the delay after failed attempt a is 3 * 2^a; an answer that is
\* retried (429 or 5xx) and carries an integer Retry-After r makes it
\* max(3 * 2^a, r); a Retry-After that is not an integer is ignored.
C3_Backoff ==
    frame.pc = "sleep" =>
        frame.delay =
            IF frame.last.kind = "response" /\ LastHeaderIsInteger
            THEN Max(ExpectedBackoff(frame.attempt), frame.last.retry_after.val)
            ELSE ExpectedBackoff(frame.attempt)

C3_Witness ==
    /\ frame.pc = "sleep"
    /\ frame.attempt = 1
    /\ frame.last.status = 429
    /\ LastHeaderIsInteger
    /\ frame.last.retry_after.val = 5
    /\ frame.delay = 6

\* C4: once the 5 attempts are used up the fetcher fails with the error of
\* the final attempt (its HTTP status error or its transport exception), the
\* generic error only when no attempt left an error.
C4_LastObservedError ==
    (frame.pc = "raised" /\ frame.attempt = 5) =>
        /\ frame.last.kind = "transport"
              => (frame.exc.type = "RequestException" /\ frame.exc.attempt = 4)
        /\ frame.last.kind = "response"
              => (frame.exc.type = "HTTPError" /\ frame.exc.status = frame.last.status)

-----------------------------------------------------------------------------
(* The workflows' failure paths *)

InvokePromptErrorText(agent) ==
    <<"Error in ", agent, " (", "invoke_prompt", ")", ": ",
      "LLM API call failed: ">> \o llm.error

\* the exception acquisition raised, if it raised, is the one the caller gets
AcquisitionPropagates ==
    /\ wf.acq_exc # NoExc
          => (outcome.status = "raised" /\ outcome.exc = wf.acq_exc /\ llm = NoLLM)
    /\ (frame.pc = "raised" /\ wf.stage # "arxiv_html")
          => (outcome.status = "raised" /\ outcome.exc = frame.exc)

Blank(s) == s = None \/ Strip(s) = <<>>

\* the input of understand_paper resolves to nothing: blank raw text, or a
\* fetched record whose content and abstract are both empty
ResolvedEmpty ==
    /\ wf.name = "understand"
    /\ \/ wf.stage = "text" /\ Blank(wf.input)
       \/ wf.fetched /\ Blank(wf.paper.content) /\ Blank(wf.paper.abstract)

\* C6: when the content understand_paper resolves is empty or only
\* whitespace, the call fails with the content-extraction error and neither
\* translation nor analysis is invoked; neither is ever handed blank content.
C6_EmptyContentRejected ==
    /\ ResolvedEmpty =>
          /\ pc = "done"
          /\ outcome.status = "raised"
          /\ outcome.exc.type = "ValueError"
          /\ outcome.exc.msg = <<"Could not extract content from the provided input.">>
          /\ llm.translate_calls = 0
          /\ llm.analyze_calls = 0
          /\ llm.chat_calls = 0
    /\ llm.translate_calls > 0 => ~Blank(llm.translate_arg)
    /\ llm.analyze_calls > 0 => ~Blank(llm.analyze_arg)

C6_Witness ==
    /\ ResolvedEmpty
    /\ wf.fetched
    /\ wf.paper.content = None
    /\ outcome.status = "raised"

\* C7: evaluate_researcher_from_url on a profile with no publications fails
\* with the "no publications found" error naming the researcher, before any
\* classification call: the capability records zero invocations.
C7_EmptyProfileRejected ==
    (wf.name = "evaluate" /\ wf.fetched /\ Len(wf.profile.publications) = 0) =>
        /\ pc = "done"
        /\ outcome.status = "raised"
        /\ outcome.exc.type = "ValueError"
        /\ outcome.exc.msg = <<"No publications found for ">> \o wf.profile.name
                             \o <<". The profile may be private or empty.">>
        /\ llm.classify_calls = 0
        /\ llm.chat_calls = 0

C7_Witness ==
    /\ wf.name = "evaluate"
    /\ wf.fetched
    /\ Len(wf.profile.publications) = 0
    /\ wf.profile.name = <<"Ada Lovelace">>
    /\ outcome.status = "raised"

C9_UnderstandReturns ==
    (/\ pc = "done"
     /\ wf.name = "understand"
     /\ wf.stage = "text" \/ wf.fetched
     /\ ~Blank(wf.content)
     /\ ~llm.chat_failed)
        => /\ outcome.status = "returned"
           /\ outcome.ret.title = wf.paper.title
           /\ outcome.ret.source = wf.paper.source
           /\ outcome.ret.translation.simplified = <<"llm text">>
           /\ outcome.ret.analysis.analysis = <<"llm text">>

\* C10 as stated: whenever fetch_paper returns a record its content is a
\* non-empty string.
C10_AsStated ==
    (wf.name = "understand" /\ wf.fetched) => Truthy(wf.paper.content)

\* the plain text of the upstream abstract the record was built from
UpstreamText ==
    CASE wf.paper.source = "arxiv" ->
            IF wf.feed.summary = Missing THEN <<>> ELSE wf.feed.summary
      [] wf.paper.source = "semantic_scholar" ->
            IF wf.body.abstract = Missing THEN <<>> ELSE wf.body.abstract
      [] wf.paper.source = "doi" ->
            IF wf.body.abstract \in {Missing, None} THEN <<>>
            ELSE SelectSeq(wf.body.abstract, LAMBDA t : t \notin {"<jats:p>", "</jats:p>"})
      [] OTHER -> <<>>

\* the full text the resolver obtained, <<>> when none
FullText ==
    CASE wf.paper.source = "arxiv" /\ wf.html_tried /\ wf.html_content # None
            -> wf.html_content
      [] wf.paper.source = "web" /\ wf.body.container -> wf.body.text
      [] OTHER -> <<>>

\* C10: whenever fetch_paper returns a record, its content is the full text
\* when one was obtained (a usable arXiv HTML rendering, the generic page's
\* text) and is otherwise equal to the record's abstract; it is a non-empty
\* string exactly when that full text or the upstream abstract's text is
\* non-empty, and is empty or null otherwise.
C10_ContentOrAbstract ==
    (wf.name = "understand" /\ wf.fetched) =>
        /\ Truthy(wf.paper.content) <=> (FullText # <<>> \/ Truthy(UpstreamText))
        /\ FullText = <<>> => wf.paper.content = wf.paper.abstract
        /\ (FullText # <<>> /\ wf.paper.source = "arxiv")
              => wf.paper.content = wf.html_content

C10_Witness ==
    /\ wf.name = "understand"
    /\ wf.fetched
    /\ wf.paper.source = "arxiv"
    /\ wf.html_tried
    /\ wf.paper.abstract = <<>>
    /\ wf.paper.content = <<"text500">>

-----------------------------------------------------------------------------
(* The arXiv resolver's HTML fallback *)

\* _request_with_retry was called with this URL in the running call
Called(url) == \E i \in 1..Len(wf.calls) : wf.calls[i] = url

\* a GET of this URL was issued in the running call
Requested(url) ==
    \E i \in 1..Len(wf.calls) :
        wf.calls[i] = url /\ (i < Len(wf.calls) \/ frame.requests > 0)

\* the path form of an arXiv link: the segment its identifier follows
LinkForm(url) ==
    LET hits == {i \in 1..(Len(url) - 2) :
                    /\ url[i] = "arxiv.org"
                    /\ url[i + 1] \in {"/abs/", "/pdf/", "/html/"}
                    /\ url[i + 2] \notin {" ", "\n", "?", "#"}}
    IN  IF hits = {} THEN "none"
        ELSE url[(CHOOSE i \in hits : \A j \in hits : i <= j) + 1]

\* the running call resolves a link with the arXiv resolver
ArxivResolve == wf.name = "understand" /\ wf.stage \in {"arxiv", "arxiv_html"}

NoHtmlAttempt ==
    /\ wf.stage # "arxiv_html"
    /\ ~Called(<<"https://", "arxiv.org", "/html/">> \o wf.arxiv_id)
    /\ Len(wf.calls) <= 1
    /\ wf.fetched => (~wf.html_tried /\ wf.paper.content = wf.paper.abstract)

HtmlOrPdfResolve == ArxivResolve /\ LinkForm(wf.url) \in {"/html/", "/pdf/"}

\* the resolve of the running call is over: fetch_paper returned or raised
ResolveOver == pc \in {"agents", "done"}

\* C12 as stated: resolving an arXiv /html/ or /pdf/ link always attempts
\* the HTML fallback: every such resolve issues a request to
\* arxiv.org/html/<id>, after the metadata request for the same ID.
C12_AsStated ==
    (HtmlOrPdfResolve /\ ResolveOver) =>
        /\ Requested(<<"https://", "arxiv.org", "/html/">> \o wf.arxiv_id)
        /\ wf.calls[1] = <<"http://", "export.arxiv.org", "/api/query?id_list=">> \o wf.arxiv_id

C12_Order ==
    HtmlOrPdfResolve =>
        /\ wf.calls # <<>>
        /\ wf.calls[1] = <<"http://", "export.arxiv.org", "/api/query?id_list=">> \o wf.arxiv_id
        /\ wf.feed.entry
              => (/\ wf.stage = "arxiv_html"
                  /\ wf.calls = <<wf.calls[1], <<"https://", "arxiv.org", "/html/">> \o wf.arxiv_id>>
                  /\ ResolveOver
                        => (/\ Requested(<<"https://", "arxiv.org", "/html/">> \o wf.arxiv_id)
                            /\ wf.fetched /\ wf.html_tried))
        /\ ~wf.feed.entry
              => (/\ wf.stage = "arxiv"
                  /\ Len(wf.calls) = 1
                  /\ ResolveOver => (outcome.status = "raised" /\ ~wf.fetched))

\* C12: resolving an arXiv /html/ or /pdf/ link attempts the HTML fallback
\* whenever the metadata request for the ID succeeds and its answer has an
\* entry: the request to arxiv.org/html/<id> is then always issued, after
\* the metadata request and as the only other one.  When the metadata
\* request fails or finds no entry the resolve fails and arxiv.org/html/<id>
\* is never requested.
C12_HtmlAfterMetadata ==
    /\ []C12_Order
    /\ (HtmlOrPdfResolve /\ wf.feed.entry)
          ~> (HtmlOrPdfResolve
              /\ Requested(<<"https://", "arxiv.org", "/html/">> \o wf.arxiv_id))

C12_Witness ==
    /\ HtmlOrPdfResolve
    /\ LinkForm(wf.url) = "/pdf/"
    /\ ResolveOver
    /\ wf.fetched
    /\ frame.url = <<"https://", "arxiv.org", "/html/", "2301.07041">>
    /\ frame.requests > 0
    /\ Len(wf.calls) = 2

\* the HTML fallback of the running resolve gave no usable text: its fetch
\* failed, no content container was found, or the text is under 500
\* characters
FallbackUnusable ==
    /\ ArxivResolve
    /\ wf.stage = "arxiv_html"
    /\ ResolveOver
    /\ \/ frame.pc = "raised"
       \/ ~wf.body.container
       \/ StrLen(wf.body.text) < 500

\* C13: when the arXiv HTML fallback does not yield usable text (under 500
\* characters, no content container, or the HTML fetch fails with any
\* error, exhausted retries included) the resolve still succeeds, the
\* record's content equals its abstract and not the short fallback text,
\* and the fallback's error is never propagated.
C13_UnusableFallback ==
    /\ FallbackUnusable =>
          /\ wf.fetched
          /\ wf.paper.source = "arxiv"
          /\ wf.paper.content = wf.paper.abstract
          /\ wf.paper.abstract = (IF wf.feed.summary = <<"<missing>">> THEN <<>> ELSE wf.feed.summary)
          /\ wf.paper.content \notin {<<"page text">>, <<"text499">>}
    /\ (ArxivResolve /\ wf.stage = "arxiv_html" /\ FrameDone(frame) /\ ResolveOver) =>
          /\ wf.fetched
          /\ wf.acq_exc = NoExc
          /\ frame.pc = "raised" => outcome.exc # frame.exc

C13_Witness ==
    /\ FallbackUnusable
    /\ frame.pc = "raised"
    /\ frame.requests = 5
    /\ wf.fetched
    /\ wf.paper.content = <<"abstract text">>

\* the HTML rendering of the running resolve was fetched and has a content
\* container
RenderingRead ==
    /\ ArxivResolve
    /\ wf.stage = "arxiv_html"
    /\ ResolveOver
    /\ frame.pc = "returned"
    /\ wf.body.container

\* C14: when the arXiv HTML rendering yields text of 500 to 30,000
\* characters the content is that text unchanged; when it yields more than
\* 30,000 characters the content is exactly the first 30,000 characters of
\* the text followed by the truncation marker.
C14_ContentCap ==
    RenderingRead =>
        /\ (500 <= StrLen(wf.body.text) /\ StrLen(wf.body.text) <= 30000)
              => wf.paper.content = wf.body.text
        /\ StrLen(wf.body.text) > 30000
              => (/\ Len(wf.paper.content) = 2
                  /\ wf.body.text = <<"text30001">>
                  /\ wf.paper.content[1] = "text30001[:30000]"
                  /\ StrLen(<<wf.paper.content[1]>>) = 30000
                  /\ wf.paper.content[2] = "\n\n[... content truncated ...]"
                  /\ StrLen(wf.paper.content) = 30029)

C14_Witness ==
    /\ RenderingRead
    /\ wf.body.text = <<"text30001">>
    /\ wf.fetched
    /\ StrLen(wf.paper.content) = 30029

-----------------------------------------------------------------------------
(* The arXiv identifier *)

\* identifiers of both schemes, with and without a version suffix
Identifiers ==
    {"2301.07041", "2301.07041v2", "hep-th/9901001", "math.GT/0309136v1"}

\* the URL forms of an identifier: the three path forms, /pdf/ also with
\* the .pdf extension, each with or without a query or fragment after it
UrlForms(id) ==
    {<<scheme>> \o host \o <<form, id>> \o ext \o rest :
        scheme \in {"http://", "https://"},
        host \in {<<"arxiv.org">>, <<"www.", "arxiv.org">>},
        form \in {"/abs/", "/html/"},
        ext \in {<<>>},
        rest \in {<<>>, <<"?", "context=cs">>, <<"#", "S1">>}}
    \cup
    {<<scheme>> \o host \o <<"/pdf/", id>> \o ext \o rest :
        scheme \in {"http://", "https://"},
        host \in {<<"arxiv.org">>, <<"www.", "arxiv.org">>},
        ext \in {<<>>, <<".pdf">>},
        rest \in {<<>>, <<"?", "context=cs">>, <<"#", "S1">>}}

\* C15: for any arXiv ID the /abs/<id>, /pdf/<id> (with or without the .pdf
\* extension) and /html/<id> URL forms all extract one identical ID, equal
\* to <id>, IDs with a version suffix included; the resolver works with
\* that ID.
C15_SameId ==
    /\ \A id \in Identifiers : \A url \in UrlForms(id) : ExtractArxivId(url) = <<id>>
    /\ (ArxivResolve /\ LinkForm(wf.url) # "none") =>
          /\ wf.arxiv_id \in {<<id>> : id \in Identifiers}
          /\ wf.url \in UrlForms(wf.arxiv_id[1])
                \cup {<<"https://", "arxiv.org", "/abs/", "2301.07041", "?", "ref=", "/pdf/">>}
          /\ wf.calls[1] = <<"http://", "export.arxiv.org", "/api/query?id_list=">> \o wf.arxiv_id

C15_Witness ==
    /\ ArxivResolve
    /\ wf.url = <<"https://", "arxiv.org", "/pdf/", "2301.07041", ".pdf">>
    /\ wf.arxiv_id = <<"2301.07041">>
    /\ frame.requests > 0

-----------------------------------------------------------------------------
(* The router's dispatch and the resolvers' failures *)

\* the domain of a URL as it is written: what stands between the scheme,
\* when there is one, and the path
WrittenDomain(url) ==
    LET rest == IF url # <<>> /\ url[1] \in {"http://", "https://"}
                THEN SubSeq(url, 2, Len(url)) ELSE url
        stops == {i \in 1..Len(rest) :
                    rest[i] \in {" ", "\n"} \/ rest[i] \in PathToks}
    IN  IF stops = {} THEN rest
        ELSE SubSeq(rest, 1, (CHOOSE i \in stops : \A j \in stops : i <= j) - 1)

\* the resolver the claim names for a URL
ByDomain(url) ==
    LET d == WrittenDomain(url)
        has(t) == \E i \in 1..Len(d) : d[i] = t
    IN  IF has("arxiv.org") THEN "arxiv"
        ELSE IF has("semanticscholar.org") THEN "semantic_scholar"
        ELSE IF has("doi.org") \/ (url # <<>> /\ url[1] = "10.") THEN "doi"
        ELSE "web"

\* the resolver the running call was dispatched to
Resolver == IF wf.stage = "arxiv_html" THEN "arxiv" ELSE wf.stage

\* C16: for every input the router classifies as a URL (starting with
\* http://, https:// or www.) fetch_paper dispatches to exactly one
\* resolver chosen by the URL's domain (arXiv, else Semantic Scholar, else
\* DOI, else the generic page), and the record's source names it.
C16_DispatchByDomain ==
    (wf.name = "understand" /\ wf.stage # "text") =>
        /\ Resolver = ByDomain(wf.url)
        /\ wf.fetched => wf.paper.source = ByDomain(wf.url)

\* fetch_paper of the running call ended without a record
ResolveFailed ==
    /\ wf.name = "understand"
    /\ wf.stage # "text"
    /\ ResolveOver
    /\ ~wf.fetched

\* the error of the resolver, by what failed
ResolverError ==
    IF frame.pc = "raised" THEN frame.exc
    ELSE IF frame.pc = "returned"
    THEN IF Resolver = "arxiv"
         THEN [type |-> "ValueError",
               msg |-> <<"No arXiv entry found for ID ">> \o wf.arxiv_id,
               status |-> 0, attempt |-> -1]
         ELSE [type |-> "JSONDecodeError", msg |-> <<"Expecting value">>,
               status |-> 0, attempt |-> -1]
    ELSE IF Resolver = "arxiv"
    THEN [type |-> "ValueError",
          msg |-> <<"Cannot extract arXiv ID from: ">> \o wf.url,
          status |-> 0, attempt |-> -1]
    ELSE [type |-> "ValueError",
          msg |-> <<"Cannot extract Semantic Scholar paper ID from: ">> \o wf.url,
          status |-> 0, attempt |-> -1]

\* C17: when the resolver selected for a URL fails (no ID can be extracted,
\* no matching entry, or its HTTP request fails) fetch_paper fails with
\* that same error unmodified, returns no record, and the generic-page
\* resolver is never invoked as a fallback.
C17_NoFallback ==
    /\ ResolveFailed =>
          /\ pc = "done"
          /\ outcome.status = "raised"
          /\ outcome.exc = ResolverError
          /\ outcome.ret = <<>>
          /\ wf.paper = NoPaper
          /\ Len(wf.calls) <= 1
          /\ llm = NoLLM
    /\ (wf.name = "understand" /\ wf.stage # "text" /\ Resolver # "web") =>
          /\ wf.calls # <<>> =>
                wf.calls[1][2] = (CASE Resolver = "arxiv" -> "export.arxiv.org"
                                    [] Resolver = "semantic_scholar" -> "api.semanticscholar.org"
                                    [] Resolver = "doi" -> "api.crossref.org")
          /\ Len(wf.calls) = 2 => (Resolver = "arxiv" /\ wf.feed.entry)
          /\ Len(wf.calls) <= 2
          /\ wf.fetched => wf.paper.source = Resolver

C17_Witness ==
    /\ ResolveFailed
    /\ Resolver = "arxiv"
    /\ frame.pc = "returned"
    /\ outcome.exc.msg = <<"No arXiv entry found for ID ", "2301.07041">>

\* the classes that are subclasses of ValueError: the JSON decoder's error
\* is one
ValueErrorClass == {"ValueError", "JSONDecodeError"}

\* the messages that name the source that failed
SourceSpecific(msg) ==
    /\ msg # <<>>
    /\ msg[1] \in {"Cannot extract arXiv ID from: ", "No arXiv entry found for ID ",
                    "Cannot extract Semantic Scholar paper ID from: "}

\* the running call was given an arXiv link that cannot be resolved: no ID
\* in it, or no entry for its ID in the metadata answer
ArxivUnresolvable ==
    /\ wf.name = "understand"
    /\ Resolver = "arxiv"
    /\ \/ ExtractArxivId(wf.url) = None
       \/ ResolveOver /\ wf.stage = "arxiv" /\ frame.pc = "returned" /\ ~wf.body.entry

\* the running call was given a Semantic Scholar link no pattern matches
S2NoMatch ==
    /\ wf.name = "understand"
    /\ Resolver = "semantic_scholar"
    /\ ExtractS2Id(wf.url) = None

\* Crossref's answer to the running call is not JSON
DoiUnparsable ==
    /\ wf.name = "understand"
    /\ Resolver = "doi"
    /\ ResolveOver
    /\ frame.pc = "returned"
    /\ ~wf.body.json

\* C18 as stated: an unresolvable arXiv ID, a missing Semantic Scholar
\* match and an unparsable DOI response each make the resolve fail with a
\* source-specific ValueError-class error; none returns a record and none
\* fails with another error class.
C18_AsStated ==
    (ArxivUnresolvable \/ S2NoMatch \/ DoiUnparsable) =>
        /\ outcome.status = "raised"
        /\ ~wf.fetched
        /\ outcome.exc.type \in ValueErrorClass
        /\ SourceSpecific(outcome.exc.msg)

\* C18: an unresolvable arXiv ID and a missing Semantic Scholar match make
\* the resolve fail with a ValueError whose message names the source and
\* the URL or ID; a DOI response that is not JSON makes it fail with the
\* JSON decoder's error, a ValueError subclass whose message does not name
\* the source.  None of the three returns a record.
C18_ParseErrors ==
    /\ (ArxivUnresolvable \/ S2NoMatch \/ DoiUnparsable) =>
          /\ pc = "done"
          /\ outcome.status = "raised"
          /\ ~wf.fetched
          /\ wf.paper = NoPaper
          /\ outcome.exc.type \in ValueErrorClass
    /\ (ArxivUnresolvable \/ S2NoMatch) =>
          /\ outcome.exc.type = "ValueError"
          /\ SourceSpecific(outcome.exc.msg)
          /\ SubSeq(outcome.exc.msg, 2, Len(outcome.exc.msg))
                = (IF frame.pc = "returned" THEN wf.arxiv_id ELSE wf.url)
    /\ DoiUnparsable =>
          /\ outcome.exc.type = "JSONDecodeError"
          /\ outcome.exc.msg = <<"Expecting value">>

C18_Witness ==
    /\ DoiUnparsable
    /\ pc = "done"
    /\ outcome.exc.type = "JSONDecodeError"
    /\ frame.requests > 0

-----------------------------------------------------------------------------
(* The profile scraper *)

\* the Scholar page of the running call, the one its last answer carried,
\* has a CAPTCHA marker
CaptchaServed ==
    /\ wf.name = "evaluate"
    /\ pc = "done"
    /\ "phrase" \in DOMAIN wf.body
    /\ wf.body.phrase \/ wf.body.form

\* C19: for every fetched Scholar page that has a CAPTCHA marker (the
\* challenge phrase or the CAPTCHA form), whatever HTTP status comes with
\* it, fetch_google_scholar_profile fails with the "blocked" error, returns
\* no profile, and exactly one request is made: no retry for it.
C19_CaptchaBlocked ==
    CaptchaServed =>
        /\ outcome.status = "raised"
        /\ outcome.exc.type = "RuntimeError"
        /\ outcome.exc.msg =
              <<"Google Scholar returned a CAPTCHA. Please try again later or provide publications manually.">>
        /\ ~wf.fetched
        /\ frame.requests = 1
        /\ frame.sleeps = 0

\* C20: fetch_google_scholar_profile on a URL without the Google Scholar
\* citations-profile marker fails with an input-validation error (not a
\* fetch error) before any HTTP request is issued.
C20_ValidatedBeforeFetch ==
    (wf.name = "evaluate" /\ ~is_google_scholar_url(wf.input)) =>
        /\ pc = "done"
        /\ outcome.status = "raised"
        /\ outcome.exc.type = "ValueError"
        /\ wf.calls = <<>>
        /\ frame.pc = "none"
        /\ frame.requests = 0

\* C21: for every URL that passes validation the URL requested from Scholar
\* carries both a cstart and a pagesize parameter: cstart=0&pagesize=100 is
\* appended (with "&" when the URL has a query, "?" otherwise) whenever
\* they are absent from the input, and a URL that has them is requested
\* unchanged.
C21_Paginated ==
    (wf.name = "evaluate" /\ wf.calls # <<>>) =>
        LET requested == wf.calls[1]
            given == Strip(wf.input)
            has(u, toks) == \E i \in 1..Len(u) : u[i] \in toks
            cstart == {"cstart=0", "cstart=20"}
            pagesize == {"pagesize=100", "pagesize=20"}
        IN  /\ has(requested, cstart)
            /\ has(requested, pagesize)
            /\ (has(given, cstart) /\ has(given, pagesize)) => requested = given
            /\ (~has(given, cstart) /\ ~has(given, pagesize)) =>
                  requested = given \o <<IF has(given, {"?"}) THEN "&" ELSE "?",
                                         "cstart=0", "&", "pagesize=100">>

-----------------------------------------------------------------------------
(* The router's URL test in understand_paper *)

\* the input, trimmed of surrounding whitespace, starts with http://,
\* https:// or www.
LooksLikeUrl(input) ==
    LET t == Strip(input)
    IN  t # <<>> /\ t[1] \in {"http://", "https://", "www."}

\* C22: understand_paper invokes a source resolver if and only if the
\* input, trimmed of surrounding whitespace, starts with http://, https://
\* or www.; every other input (a bare DOI beginning with "10." included)
\* issues no HTTP request and is passed unchanged as the content, with
\* source "text", empty title, no authors and absent url.
C22_UrlOrText ==
    wf.name = "understand" =>
        /\ wf.stage # "text" <=> LooksLikeUrl(wf.input)
        /\ wf.stage \in {"arxiv", "arxiv_html", "semantic_scholar", "doi", "web", "text"}
        /\ wf.stage = "text" =>
              /\ wf.calls = <<>>
              /\ frame.pc = "none"
              /\ frame.requests = 0
              /\ wf.content = wf.input
              /\ wf.paper.content = wf.input
              /\ wf.paper.source = "text"
              /\ wf.paper.title = <<>>
              /\ wf.paper.authors = <<>>
              /\ wf.paper.url = None
              /\ llm.translate_calls > 0 => llm.translate_arg = wf.input

C22_Witness ==
    /\ wf.name = "understand"
    /\ wf.input = <<"10.", "1000/xyz">>
    /\ wf.stage = "text"
    /\ llm.translate_calls = 1
    /\ llm.translate_arg = <<"10.", "1000/xyz">>

-----------------------------------------------------------------------------
(* The fetcher's last delay *)

\* C30: every backoff delay of the fetcher is followed by another request:
\* the fetcher never sleeps after its final (5th) attempt, so a call that
\* exhausts its retries performs exactly 4 delays between its 5 requests
\* before it fails.
C30_NoSleepAfterLastAttempt ==
    /\ frame.pc = "sleep" => frame.requests < 5
    /\ (frame.pc = "raised" /\ frame.requests = 5 /\ LastRetryable) => frame.sleeps = 4

-----------------------------------------------------------------------------
(* The paths to the classification agent *)

\* C25: the researcher-pattern classification is never invoked with an empty
\* publication list, on any path that reaches it: the Scholar workflow, the
\* orchestrator's evaluate_researcher(publications, name) helper and the
\* UI's streaming researcher workflow.
C25_NeverClassifiesEmpty ==
    \A path \in {"evaluate", "helper", "evaluate_stream"} :
        (wf.name = path /\ llm.classify_calls > 0) => wf.profile.publications # <<>>

-----------------------------------------------------------------------------
(* BaseAgent.invoke_prompt *)

\* text ends with tail
EndsWith(text, tail) ==
    /\ Len(text) >= Len(tail)
    /\ SubSeq(text, Len(text) - Len(tail) + 1, Len(text)) = tail

\* C26: invoke_prompt never raises when chat_completion fails: for every
\* client error it returns a string that contains "Error in <agent name>"
\* and the client's error message; when the client succeeds it returns the
\* client's text; either way exactly one chat_completion call is made, with
\* the agent's system prompt followed by the user prompt as its messages.
C26_InvokePromptNeverRaises ==
    llm.chat_calls > 0 =>
        /\ llm.chat_calls = 1
        /\ ~llm.invoked.raised
        /\ llm.messages = <<[role |-> "system", content |-> SystemPrompt(llm.agent)],
                            [role |-> "user", content |-> llm.prompt]>>
        /\ llm.chat_failed =>
              /\ llm.error # <<>>
              /\ SubSeq(llm.invoked.value, 1, 2) = <<"Error in ", llm.agent>>
              /\ EndsWith(llm.invoked.value, <<"LLM API call failed: ">> \o llm.error)
        /\ ~llm.chat_failed => llm.invoked.value = llm.last_text /\ llm.last_text # <<>>

C26_Witness ==
    /\ pc = "done"
    /\ wf.name = "helper"
    /\ llm.chat_failed
    /\ llm.error = <<"rate limit exceeded">>
    /\ outcome.status = "returned"
    /\ outcome.ret.evaluation
         = <<"Error in ", "ResearcherEvaluationAgent", " (", "invoke_prompt", ")", ": ",
             "LLM API call failed: ", "rate limit exceeded">>

-----------------------------------------------------------------------------
(* Concurrent fetches share nothing *)

\* the exception a finished call raised came from the requests of that call
OwnError(f) ==
    f.frame.pc = "raised" =>
        CASE f.frame.exc.type = "HTTPError" ->
                 f.frame.exc.status \in f.seen /\ f.frame.exc.status = f.frame.last.status
          [] f.frame.exc.type = "RequestException" -> 0 \in f.seen
          [] OTHER -> f.issued = 5 /\ f.seen = {429}

\* C23: the fetcher carries no shared mutable state across calls: when two
\* fetches interleave at their requests and backoff delays each keeps its
\* own attempt counter and captured error, so each issues at most 5
\* requests of its own and fails only with an error from its own requests,
\* and no module-level state is written.
C23_NoSharedState ==
    /\ module_state = [headers |-> _HEADERS]
    /\ \A p \in Procs :
        LET f == fetches[p]
        IN  /\ f.issued <= 5
            /\ f.frame.requests = f.issued
            /\ f.frame.pc # "none" => f.frame.url = FetchUrl(p)
            /\ f.frame.pc \in {"request", "sleep"} => f.frame.attempt + 1 >= f.issued
            /\ f.frame.pc = "request" => f.frame.attempt = f.issued
            /\ f.frame.last_exc # NoExc => 0 \in f.seen
            /\ f.frame.pc = "returned" => f.frame.last.status = 200 /\ 200 \in f.seen
            /\ OwnError(f)
            /\ f.seen \subseteq {o.status : o \in FetchOutcomes(p)}

\* both callers are in the middle of their retries, one holding a captured
\* transport error and the other none, with different attempt counters
C23_Witness ==
    /\ fetches[1].frame.pc = "sleep"
    /\ fetches[1].issued = 4
    /\ fetches[1].frame.last_exc # NoExc
    /\ fetches[2].frame.pc = "request"
    /\ fetches[2].issued = 2
    /\ fetches[2].seen = {429}
    /\ fetches[2].frame.last_exc = NoExc

\* C24: when the fetcher is called with caller-supplied headers H the
\* request is sent with the fixed identifying headers (User-Agent,
\* Accept-Language) merged with H: every fixed header H does not override is
\* still sent, and H's value wins for a header present in both.
C24_HeadersMerged ==
    \A p \in Procs :
        (fetches[p].issued > 0 /\ fetches[p].kwargs.has_headers) =>
            LET H == fetches[p].kwargs.headers
                sent == fetches[p].sent
            IN  /\ \A h \in DOMAIN H : h \in DOMAIN sent /\ sent[h] = H[h]
                /\ \A h \in DOMAIN _HEADERS \ DOMAIN H :
                        h \in DOMAIN sent /\ sent[h] = _HEADERS[h]

-----------------------------------------------------------------------------
(* The agent registry *)

\* the latest call that registered name with a class the registry takes (0:
\* none since import), and the latest call that unregistered it
LastRegister(name) ==
    LET I == {i \in 1..Len(calls) : /\ calls[i].op = "register"
                                     /\ calls[i].name = name
                                     /\ calls[i].agent_class \in BaseAgentSubclasses}
    IN  IF I = {} THEN 0 ELSE CHOOSE i \in I : \A j \in I : j <= i

LastUnregister(name) ==
    LET I == {i \in 1..Len(calls) : calls[i].op = "unregister" /\ calls[i].name = name}
    IN  IF I = {} THEN 0 ELSE CHOOSE i \in I : \A j \in I : j <= i

\* the import registered "analysis" and "researcher"
RegisteredAtImport ==
    [n \in {"analysis", "researcher"} |->
        IF n = "analysis" THEN <<"AnalysisAgent">> ELSE <<"ResearcherEvaluationAgent">>]

StillRegistered(name) ==
    \/ LastRegister(name) > LastUnregister(name)
    \/ name \in DOMAIN RegisteredAtImport /\ LastRegister(name) = 0 /\ LastUnregister(name) = 0

\* C27: after any sequence of register and unregister calls list_agents
\* contains exactly the names registered and not unregistered since, and
\* get(name) is the class most recently registered under the name (None
\* for a name not registered); unregister of an unregistered name and
\* register of a class that is not a BaseAgent subclass (a TypeError)
\* leave the registry unchanged.
C27_RegistryContents ==
    /\ \A name \in AgentNames \cup {"researcher"} :
          /\ name \in AgentRegistry_list_agents(registry) <=> StillRegistered(name)
          /\ AgentRegistry_get(registry, name)
               = IF ~StillRegistered(name) THEN None
                 ELSE IF LastRegister(name) > 0 THEN calls[LastRegister(name)].agent_class
                 ELSE RegisteredAtImport[name]
    /\ AgentRegistry_list_agents(registry) \subseteq AgentNames \cup {"researcher"}
    /\ \A i \in 1..Len(calls) :
          /\ (calls[i].op = "unregister" /\ calls[i].name \notin DOMAIN calls[i].before)
                => calls[i].after = calls[i].before
          /\ (calls[i].op = "register" /\ calls[i].agent_class \notin BaseAgentSubclasses)
                => (calls[i].raised = "TypeError" /\ calls[i].after = calls[i].before)
          /\ (calls[i].op = "register" /\ calls[i].agent_class \in BaseAgentSubclasses)
                => calls[i].raised = "none"

\* a name is registered, registered again with another class, and a class
\* without the base class is refused
C27_Witness ==
    /\ Len(calls) = 3
    /\ calls[1].op = "register" /\ calls[1].name = "test_agent"
    /\ calls[1].agent_class = <<"TestAgent">>
    /\ calls[2].op = "register" /\ calls[2].name = "test_agent"
    /\ calls[2].agent_class = <<"AnalysisAgent">>
    /\ calls[3].op = "register" /\ calls[3].agent_class = TranslationAgent
    /\ calls[3].raised = "TypeError"
    /\ AgentRegistry_get(registry, "test_agent") = <<"AnalysisAgent">>

\* C28: once the package is imported, and as long as nothing is
\* unregistered or cleared, the registry lists the built-in agents
\* "translation" and "analysis".
C28_BuiltinsListed ==
    (\A i \in 1..Len(calls) : calls[i].op # "unregister") =>
        {"translation", "analysis"} \subseteq AgentRegistry_list_agents(registry)

-----------------------------------------------------------------------------
(* Credentials *)

\* C29: the credentials an orchestrator's LLM capability uses are fixed at
\* its construction and not re-read per call: every LLM call made through
\* an orchestrator uses the credential it was constructed with, even after
\* another orchestrator of the same provider was constructed with another
\* key or the environment changed in between.
C29_CredentialFixedAtConstruction ==
    completion.orchestrator # 0 =>
        completion.key = orchestrators[completion.orchestrator].api_key

====
